---- MODULE Spec2Model ----
(***************************************************************************)
(* Model of person_detect.py: the Queue zone registry, the PersonDetect    *)
(* post-processing of detector rows, and main's frame loop with its        *)
(* exception handling and statistics.                                      *)
(*                                                                         *)
(* Units.  Detector scores are held in hundredths (0.60 is 60) and the     *)
(* normalized box coordinates in tenths (0.3 is 3), so that box[3]*width   *)
(* is x*width/10.  Wall-clock time is held in hundredths of a second and   *)
(* the rounded total_inference_time in tenths of a second.                 *)
(***************************************************************************)
EXTENDS Integers, Sequences, FiniteSets, TLC

VARIABLES
    pc,                   \* position of main
    error,                \* exception that ended the run, "none" otherwise
    zoneLoad,             \* outcome of np.load(args.queue_param)
    queue_param,          \* entries of the zone file not yet iterated
    queues,               \* Queue.queues
    cap,                  \* the cv2.VideoCapture
    out_video,            \* the cv2.VideoWriter
    shape,                \* <<height, width>> of the frames (image.shape)
    counter,              \* main's counter
    frame,                \* the frame being processed (its position in the source), 0 if none
    framesRead,           \* frames the source has yielded, in order
    written,              \* frames handed to out_video.write, in order
    inflight,             \* detector requests started and not yet waited for
    outputs,              \* rows of the detector result of the current frame
    coords,               \* bounding boxes returned by predict
    num_people,           \* mapping returned by check_coords
    overlay,              \* what has been drawn on the current image: boxes and text lines
    total_inference_time, \* round(total_time, 1) in tenths, -1 while unset
    fps,                  \* counter/total_inference_time as <<numerator, tenths>>
    stats                 \* content of stats.txt, <<>> while not written

vars == <<pc, error, zoneLoad, queue_param, queues, cap, out_video, shape, counter,
          frame, framesRead, written, inflight, outputs, coords, num_people, overlay,
          total_inference_time, fps, stats>>

(***************************************************************************)
(* Bounds of the model.                                                    *)
(***************************************************************************)
MaxZones == 2
MaxRows == 2
MaxFrames == 2

(***************************************************************************)
(* Program constants.                                                      *)
(***************************************************************************)
Threshold == 60
MaxPeople == 2

(***************************************************************************)
(* Inputs.                                                                 *)
(***************************************************************************)
\* Rows of the zone file: three rectangles (x_min, y_min, x_max, y_max), one of
\* them with x_max < x_min, and one row that has only two columns.
ZoneEntries ==
    { <<100, 0, 163, 320>>, <<54, 64, 164, 128>>, <<200, 0, 100, 320>>, <<100, 50>> }

\* Frame shapes <<height, width>> the source can deliver.
FrameShapes == { <<320, 544>> }

\* Detector rows: score (hundredths) and x1, y1, x2, y2 (tenths).
Scores == { 59, 60, 61 }
NormBoxes == { <<1, 2, 3, 4>>, <<2, 0, 3, 10>>, <<3, 4, 1, 2>> }
Rows == { [score |-> s, box |-> b] : s \in Scores, b \in NormBoxes }

\* Elapsed wall-clock times of the frame loop, in hundredths of a second.  None
\* lies halfway between two tenths.
Elapsed == { 0, 4, 12, 31 }

SeqsUpTo(S, n) == UNION { [1..k -> S] : k \in 0..n }

(***************************************************************************)
(* Queue                                                                   *)
(***************************************************************************)
add_queue(qs, points) == Append(qs, points)

\* Variant: the mapping is built for range(len(self.queues) - 1).
InitialCountsShort(qs) == [k \in 1..(Len(qs) - 1) |-> 0]

\* d={k+1:0 for k in range(len(self.queues))}
InitialCounts(qs) == [k \in 1..Len(qs) |-> 0]

\* Variant: the lower horizontal bound is compared with >=.
InsideLoose(coord, q) == coord[1] >= q[1] /\ coord[3] < q[3]

\* coord[0]>q[0] and coord[2]<q[2]
Inside(coord, q) == coord[1] > q[1] /\ coord[3] < q[3]

\* Evaluating the test on an entry that lacks the index raises IndexError; the
\* second operand is evaluated only when the first is true.
TestRaises(coord, q) ==
    \/ Len(q) < 1
    \/ (coord[1] > q[1] /\ Len(q) < 3)

CheckRaises(qs, cs) ==
    \E c \in 1..Len(cs) : \E i \in 1..Len(qs) : TestRaises(cs[c], qs[i])

RECURSIVE CountZones(_, _, _, _)
\* for i, q in enumerate(self.queues): if ...: d[i+1]+=1
CountZones(d, coord, qs, i) ==
    IF i > Len(qs) THEN d
    ELSE CountZones(IF Inside(coord, qs[i]) THEN [d EXCEPT ![i] = @ + 1] ELSE d,
                    coord, qs, i + 1)

RECURSIVE CountCoords(_, _, _, _)
\* for coord in coords: ...
CountCoords(d, cs, qs, c) ==
    IF c > Len(cs) THEN d
    ELSE CountCoords(CountZones(d, cs[c], qs, 1), cs, qs, c + 1)

check_coords(qs, cs) == CountCoords(InitialCounts(qs), cs, qs, 1)

(***************************************************************************)
(* PersonDetect.preprocess_outputs                                         *)
(***************************************************************************)
\* int() of a quotient n/d, d > 0: truncation toward zero.
Trunc(n, d) == IF n >= 0 THEN n \div d ELSE -((-n) \div d)

\* Variant: round() in place of int().
ToPixelRounded(x, size) == (2 * x * size + 10) \div 20

\* int(box[k] * size), the normalized value held in tenths
ToPixel(x, size) == Trunc(x * size, 10)

\* Variant: the threshold is compared with >.
KeepsAbove(row) == row.score > Threshold

\* if box[2] >= self.threshold
Keeps(row) == row.score >= Threshold

BoxOf(row, shp) ==
    << ToPixel(row.box[1], shp[2]), ToPixel(row.box[2], shp[1]),
       ToPixel(row.box[3], shp[2]), ToPixel(row.box[4], shp[1]) >>

RECURSIVE AppendBoxes(_, _, _, _)
AppendBoxes(bounding_boxes, outs, shp, i) ==
    IF i > Len(outs) THEN bounding_boxes
    ELSE AppendBoxes(IF Keeps(outs[i]) THEN Append(bounding_boxes, BoxOf(outs[i], shp))
                                       ELSE bounding_boxes,
                     outs, shp, i + 1)

preprocess_outputs(outs, shp) == AppendBoxes(<<>>, outs, shp, 1)

(***************************************************************************)
(* main                                                                    *)
(***************************************************************************)
\* round(total_time, 1) for a time that is not halfway between two tenths
Round1(cs) == (cs + 5) \div 10

\* the text lines of one frame, one per entry of num_people in key order
OutText(d) ==
    [k \in 1..Len(d) |-> [queue |-> k, people |-> d[k], full |-> d[k] >= MaxPeople]]

\* an image nothing has been drawn on
NoOverlay == [boxes |-> <<>>, text |-> <<>>]

\* draw_outputs: one cv2.rectangle per bounding box, in list order
draw_outputs(bounding_boxes, image) == [image EXCEPT !.boxes = bounding_boxes]

Init ==
    /\ pc = "init"
    /\ error = "none"
    /\ zoneLoad = "none"
    /\ queue_param = <<>>
    /\ queues = <<>>
    /\ cap = "unbound"
    /\ out_video = "unbound"
    /\ shape = <<0, 0>>
    /\ counter = 0
    /\ frame = 0
    /\ framesRead = <<>>
    /\ written = <<>>
    /\ inflight = 0
    /\ outputs = <<>>
    /\ coords = <<>>
    /\ num_people = <<>>
    /\ overlay = NoOverlay
    /\ total_inference_time = -1
    /\ fps = <<>>
    /\ stats = <<>>

\* except Exception as e: print(...) and main returns
Caught(name) ==
    /\ pc' = "done"
    /\ error' = name

\* pd = PersonDetect(...); pd.load_model(): a ValueError is not caught
LoadModel ==
    /\ pc = "init"
    /\ \E ok \in BOOLEAN :
         IF ok THEN pc' = "queues" /\ error' = error
               ELSE pc' = "crashed" /\ error' = "ValueError"
    /\ UNCHANGED <<zoneLoad, queue_param, queues, cap, out_video, shape, counter, frame,
                   framesRead, written, inflight, outputs, coords, num_people, overlay,
                   total_inference_time, fps, stats>>

\* queue=Queue(); queue_param=np.load(args.queue_param), inside try/except
LoadQueueParam ==
    /\ pc = "queues"
    /\ \/ /\ zoneLoad' = "failed"
          /\ queue_param' = <<>>
          /\ pc' = "open"
       \/ \E file \in SeqsUpTo(ZoneEntries, MaxZones) :
            /\ zoneLoad' = "loaded"
            /\ queue_param' = file
            /\ pc' = IF file = <<>> THEN "open" ELSE "adding"
    /\ UNCHANGED <<error, queues, cap, out_video, shape, counter, frame, framesRead,
                   written, inflight, outputs, coords, num_people, overlay,
                   total_inference_time, fps, stats>>

\* for q in queue_param: queue.add_queue(q)
AddQueue ==
    /\ pc = "adding"
    /\ queue_param # <<>>
    /\ queues' = add_queue(queues, Head(queue_param))
    /\ queue_param' = Tail(queue_param)
    /\ pc' = IF Tail(queue_param) = <<>> THEN "open" ELSE "adding"
    /\ UNCHANGED <<error, zoneLoad, cap, out_video, shape, counter, frame, framesRead,
                   written, inflight, outputs, coords, num_people, overlay,
                   total_inference_time, fps, stats>>

\* cap=cv2.VideoCapture(video_file) inside try/except.  When the constructor
\* raises, the handler prints and cap stays unbound, so cap.get(...) on the
\* next line raises UnboundLocalError outside any try.
OpenVideo ==
    /\ pc = "open"
    /\ \/ /\ cap' = "opened"
          /\ pc' = "writer"
          /\ error' = error
       \/ /\ cap' = "unopened"
          /\ pc' = "writer"
          /\ error' = error
       \/ /\ cap' = "unbound"
          /\ pc' = "crashed"
          /\ error' = "UnboundLocalError"
    /\ UNCHANGED <<zoneLoad, queue_param, queues, out_video, shape, counter, frame,
                   framesRead, written, inflight, outputs, coords, num_people, overlay,
                   total_inference_time, fps, stats>>

\* initial_w, initial_h = cap.get(...); out_video = cv2.VideoWriter(...);
\* counter=0; start_inference_time=time.time().  The writer is taken to open
\* whenever the source did.
CreateWriter ==
    /\ pc = "writer"
    /\ IF cap = "opened"
         THEN shape' \in FrameShapes /\ out_video' = "opened"
         ELSE shape' = <<0, 0>> /\ out_video' = "unopened"
    /\ counter' = 0
    /\ pc' = "loop"
    /\ UNCHANGED <<error, zoneLoad, queue_param, queues, cap, frame, framesRead, written,
                   inflight, outputs, coords, num_people, overlay, total_inference_time,
                   fps, stats>>

\* while cap.isOpened(): ret, frame=cap.read(); if not ret: break; counter+=1
ReadFrame ==
    /\ pc = "loop"
    /\ \/ /\ cap = "opened"
          /\ counter < MaxFrames
          /\ counter' = counter + 1
          /\ frame' = Len(framesRead) + 1
          /\ framesRead' = Append(framesRead, Len(framesRead) + 1)
          /\ pc' = "predict"
       \/ /\ pc' = "stats"
          /\ UNCHANGED <<counter, frame, framesRead>>
    /\ UNCHANGED <<error, zoneLoad, queue_param, queues, cap, out_video, shape, written,
                   inflight, outputs, coords, num_people, overlay, total_inference_time,
                   fps, stats>>

\* predict: preprocess_input; self.net.start_async(request_id=0, ...)
StartAsync ==
    /\ pc = "predict"
    /\ inflight' = inflight + 1
    /\ pc' = "wait"
    /\ UNCHANGED <<error, zoneLoad, queue_param, queues, cap, out_video, shape, counter,
                   frame, framesRead, written, outputs, coords, num_people, overlay,
                   total_inference_time, fps, stats>>

\* predict: if self.net.requests[0].wait(-1) == 0: preprocess_outputs,
\* draw_outputs; return bounding_boxes, image.  With a non-zero status
\* bounding_boxes is unbound at the return.
WaitRequest ==
    /\ pc = "wait"
    /\ inflight' = inflight - 1
    /\ \/ \E outs \in SeqsUpTo(Rows, MaxRows) :
            /\ outputs' = outs
            /\ coords' = preprocess_outputs(outs, shape)
            /\ overlay' = draw_outputs(preprocess_outputs(outs, shape), overlay)
            /\ pc' = "check"
            /\ error' = error
       \/ /\ Caught("UnboundLocalError")
          /\ UNCHANGED <<outputs, coords, overlay>>
    /\ UNCHANGED <<zoneLoad, queue_param, queues, cap, out_video, shape, counter, frame,
                   framesRead, written, num_people, total_inference_time, fps, stats>>

\* num_people= queue.check_coords(coords)
CheckCoords ==
    /\ pc = "check"
    /\ IF CheckRaises(queues, coords)
         THEN Caught("IndexError") /\ UNCHANGED num_people
         ELSE /\ num_people' = check_coords(queues, coords)
              /\ pc' = "render"
              /\ error' = error
    /\ UNCHANGED <<zoneLoad, queue_param, queues, cap, out_video, shape, counter, frame,
                   framesRead, written, inflight, outputs, coords, overlay,
                   total_inference_time, fps, stats>>

\* for k, v in num_people.items(): ... cv2.putText(...)
Render ==
    /\ pc = "render"
    /\ overlay' = [overlay EXCEPT !.text = OutText(num_people)]
    /\ pc' = "write"
    /\ UNCHANGED <<error, zoneLoad, queue_param, queues, cap, out_video, shape, counter,
                   frame, framesRead, written, inflight, outputs, coords, num_people,
                   total_inference_time, fps, stats>>

\* Variant: a frame without detections is not written.
WriteFrameIfDetections ==
    /\ pc = "write"
    /\ written' = IF coords = <<>> THEN written ELSE Append(written, frame)
    /\ pc' = "loop"
    /\ frame' = 0
    /\ outputs' = <<>>
    /\ coords' = <<>>
    /\ num_people' = <<>>
    /\ overlay' = NoOverlay
    /\ UNCHANGED <<error, zoneLoad, queue_param, queues, cap, out_video, shape, counter,
                   framesRead, inflight, total_inference_time, fps, stats>>

\* out_video.write(image).  The values of the frame are rebound before they are
\* read again; they are cleared here.
WriteFrame ==
    /\ pc = "write"
    /\ written' = Append(written, frame)
    /\ pc' = "loop"
    /\ frame' = 0
    /\ outputs' = <<>>
    /\ coords' = <<>>
    /\ num_people' = <<>>
    /\ overlay' = NoOverlay
    /\ UNCHANGED <<error, zoneLoad, queue_param, queues, cap, out_video, shape, counter,
                   framesRead, inflight, total_inference_time, fps, stats>>

\* total_time=time.time()-start_inference_time;
\* total_inference_time=round(total_time, 1); fps=counter/total_inference_time
ComputeStats ==
    /\ pc = "stats"
    /\ \E e \in Elapsed :
         /\ total_inference_time' = Round1(e)
         /\ IF Round1(e) = 0
              THEN Caught("ZeroDivisionError") /\ UNCHANGED fps
              ELSE /\ fps' = <<counter, Round1(e)>>
                   /\ pc' = "write_stats"
                   /\ error' = error
    /\ UNCHANGED <<zoneLoad, queue_param, queues, cap, out_video, shape, counter, frame,
                   framesRead, written, inflight, outputs, coords, num_people, overlay,
                   stats>>

\* with open(os.path.join(output_path, 'stats.txt'), 'w') as f: f.write(...)
WriteStats ==
    /\ pc = "write_stats"
    /\ \/ /\ stats' = <<total_inference_time, fps, "total_model_load_time">>
          /\ pc' = "release"
          /\ error' = error
       \/ /\ Caught("OSError")
          /\ UNCHANGED stats
    /\ UNCHANGED <<zoneLoad, queue_param, queues, cap, out_video, shape, counter, frame,
                   framesRead, written, inflight, outputs, coords, num_people, overlay,
                   total_inference_time, fps>>

\* cap.release(); cv2.destroyAllWindows()
Release ==
    /\ pc = "release"
    /\ cap' = "released"
    /\ pc' = "done"
    /\ UNCHANGED <<error, zoneLoad, queue_param, queues, out_video, shape, counter, frame,
                   framesRead, written, inflight, outputs, coords, num_people, overlay,
                   total_inference_time, fps, stats>>

Next ==
    \/ LoadModel
    \/ LoadQueueParam
    \/ AddQueue
    \/ OpenVideo
    \/ CreateWriter
    \/ ReadFrame
    \/ StartAsync
    \/ WaitRequest
    \/ CheckCoords
    \/ Render
    \/ WriteFrame
    \/ ComputeStats
    \/ WriteStats
    \/ Release

Spec == Init /\ [][Next]_vars

(***************************************************************************)
(* Properties                                                              *)
(***************************************************************************)
IsRectangle(q) == Len(q) = 4

\* detections of the current frame that pass the horizontal test of zone z
Qualifying(z) ==
    { i \in 1..Len(coords) : coords[i][1] > queues[z][1] /\ coords[i][3] < queues[z][3] }

\* a box or rectangle with its vertical bounds replaced by 0
FlatY(b) == <<b[1], 0, b[3], 0>>
FlatAll(bs) == [k \in 1..Len(bs) |-> FlatY(bs[k])]

AllRectangles == \A z \in 1..Len(queues) : IsRectangle(queues[z])

\* C1: once check_coords has returned, the count of every registered rectangle
\* is the number of detections with d.xmin > z.xmin and d.xmax < z.xmax, both
\* strict, and the counts are the same when every vertical bound of the zones
\* and of the detections is replaced.
C1_HorizontalContainment ==
    pc = "render" =>
        /\ \A z \in 1..Len(queues) :
             IsRectangle(queues[z]) => num_people[z] = Cardinality(Qualifying(z))
        /\ AllRectangles => num_people = check_coords(FlatAll(queues), FlatAll(coords))

\* A zone that counts a detection reaching above and below it, and leaves out a
\* detection whose xmin lies on the zone's xmin.
C1_Witness ==
    /\ pc = "render"
    /\ \E z \in 1..Len(queues) :
         /\ IsRectangle(queues[z])
         /\ num_people[z] = 1
         /\ \E i \in 1..Len(coords) :
              /\ i \in Qualifying(z)
              /\ coords[i][2] < queues[z][2]
              /\ coords[i][4] > queues[z][4]
         /\ \E j \in 1..Len(coords) :
              /\ coords[j][1] = queues[z][1]
              /\ coords[j][3] < queues[z][3]

\* C2: the step in which check_coords returns leaves the registered zones as
\* they were and yields a mapping whose keys are exactly 1..N, N the number of
\* registered zones, whose values are non-negative integers, and in which a
\* rectangle no detection qualifies for has 0.
C2_OccupancyKeys ==
    [][ (pc = "check" /\ pc' = "render") =>
          /\ queues' = queues
          /\ DOMAIN num_people' = 1..Len(queues)
          /\ \A k \in 1..Len(queues) :
               /\ num_people'[k] \in Nat
               /\ (IsRectangle(queues[k]) /\ Qualifying(k) = {}) => num_people'[k] = 0
      ]_vars

\* Two registered zones and no detection at all: both map to 0.
C2_Witness ==
    /\ pc = "render"
    /\ Len(queues) = 2
    /\ coords = <<>>
    /\ DOMAIN num_people = {1, 2}
    /\ num_people[1] = 0
    /\ num_people[2] = 0

\* C3: every rectangle held in the registry has x_max > x_min and y_max > y_min.
C3_ZonesNonDegenerate ==
    \A z \in 1..Len(queues) :
        IsRectangle(queues[z]) =>
            queues[z][3] > queues[z][1] /\ queues[z][4] > queues[z][2]

\* rows of the current detector result whose score reaches the threshold
Kept == { i \in 1..Len(outputs) : outputs[i].score >= Threshold }
\* position among the kept rows
Rank(i) == Cardinality({ j \in Kept : j <= i })

\* C4: the list predict returns holds one box per row with score >= T, none
\* for the other rows, in the order of the rows; a box with xmax <= xmin or
\* ymax <= ymin is kept like any other.
C4_ThresholdFilter ==
    pc \in {"check", "render", "write"} =>
        /\ Len(coords) = Cardinality(Kept)
        /\ \A i \in Kept : coords[Rank(i)] = BoxOf(outputs[i], shape)

\* A row below the threshold is dropped and the row after it, whose score is
\* exactly the threshold and whose box is degenerate, is kept.
C4_Witness ==
    /\ pc = "check"
    /\ Len(outputs) = 2
    /\ outputs[1].score < Threshold
    /\ outputs[2].score = Threshold
    /\ Len(coords) = 1
    /\ coords[1][3] <= coords[1][1]
    /\ coords[1][4] <= coords[1][2]

\* r is a nearest integer to n/d
IsNearest(r, n, d) == 2 * (IF r * d >= n THEN r * d - n ELSE n - r * d) <= d
\* r is n/d with its fractional part dropped
IsTruncated(r, n, d) ==
    IF n >= 0 THEN r * d <= n /\ n < (r + 1) * d
              ELSE (r - 1) * d < n /\ n <= r * d

BoxIs(P(_, _, _), i) ==
    /\ P(coords[Rank(i)][1], outputs[i].box[1] * shape[2], 10)
    /\ P(coords[Rank(i)][2], outputs[i].box[2] * shape[1], 10)
    /\ P(coords[Rank(i)][3], outputs[i].box[3] * shape[2], 10)
    /\ P(coords[Rank(i)][4], outputs[i].box[4] * shape[1], 10)

\* C5 as stated: every coordinate of an emitted box is the nearest integer to
\* the scaled value.
C5_NearestInteger ==
    pc = "check" => \A i \in Kept : BoxIs(IsNearest, i)

\* C5 amended: every coordinate of an emitted box is the scaled value with its
\* fractional part dropped (truncation toward zero).
C5_Truncated ==
    pc = "check" => \A i \in Kept : BoxIs(IsTruncated, i)

\* The row (0.1, 0.2, 0.3, 0.4) on a 544 x 320 frame gives (54, 64, 163, 128),
\* and the row (0.2, 0.0, 0.3, 1.0), whose xmin scales to 108.8, gives 108.
C5_Witness ==
    /\ pc = "check"
    /\ shape = <<320, 544>>
    /\ Len(outputs) = 2
    /\ outputs[1].box = <<1, 2, 3, 4>>
    /\ outputs[2].box = <<2, 0, 3, 10>>
    /\ coords = << <<54, 64, 163, 128>>, <<108, 0, 163, 320>> >>

Ended == pc \in {"done", "crashed"}

\* C6: when the run has ended, a frame source that was opened and a sink that
\* was opened have been released.
C6_ResourcesReleased ==
    Ended => cap # "opened" /\ out_video # "opened"

\* C7: a run whose source opened and was read to exhaustion, and whose stats
\* file could be written, ends with the stats persisted, frame_count the number
\* of frames the source yielded and average_fps = frame_count /
\* total_inference_seconds, whatever the elapsed time and the frame count.
C7_ExhaustionFinalizes ==
    (pc = "done" /\ cap \in {"opened", "released"} /\ total_inference_time # -1
        /\ error # "OSError") =>
        /\ stats # <<>>
        /\ counter = Len(framesRead)
        /\ stats[2] = <<Len(framesRead), total_inference_time>>

\* C8: when the frame source could not be opened, no frame is processed or
\* written and the finalization step is not taken: average_fps is not computed
\* and the stats are not persisted.
C8_OpenFailureIsFailed ==
    cap = "unopened" =>
        /\ framesRead = <<>>
        /\ written = <<>>
        /\ fps = <<>>
        /\ stats = <<>>

\* the zone file could not be loaded, or holds a row that is no rectangle
ZoneDataBad ==
    \/ zoneLoad = "failed"
    \/ \E k \in 1..Len(queue_param) : ~IsRectangle(queue_param[k])
    \/ \E z \in 1..Len(queues) : ~IsRectangle(queues[z])

\* C9: once zone loading is over, bad zone data has left the registry empty,
\* every occupancy mapping is empty and the frame loop is not aborted by it.
C9_BadZonesEmptyRegistry ==
    (ZoneDataBad /\ pc \notin {"init", "queues", "adding"}) =>
        /\ queues = <<>>
        /\ num_people = <<>>
        /\ error # "IndexError"

\* C10: every step keeps the order read, detect (predict), zone evaluation
\* (check_coords), rendering of the occupancy text, write within a frame, reads a frame only when every frame read before has
\* been written, has at most one detector request in flight, keeps the frames
\* written a prefix of the frames read, never decreases counter and keeps it
\* equal to the number of frames read.
C10_Step ==
    /\ (pc' = "predict" /\ pc # "predict") => pc = "loop"
    /\ (pc' = "wait" /\ pc # "wait") => pc = "predict"
    /\ (pc' = "check" /\ pc # "check") => pc = "wait"
    /\ (pc' = "render" /\ pc # "render") => pc = "check"
    /\ (pc' = "write" /\ pc # "write") => pc = "render"
    /\ written' # written => (pc = "write" /\ written' = Append(written, frame))
    /\ framesRead' # framesRead => (pc = "loop" /\ written = framesRead)
    /\ inflight' \in {0, 1}
    /\ Len(written') <= Len(framesRead')
    /\ written' = SubSeq(framesRead', 1, Len(written'))
    /\ counter' >= counter
    /\ counter' = Len(framesRead')

====
